---- MODULE Spec2Model ----
(***************************************************************************)
(* The question-to-answer pipeline of wikidata-graph-rag-nli:              *)
(* src/main.py (the chat_input handler) and src/wikidata_rag.py            *)
(* (WikidataGraphRAG: extract_entity, get_entity_ids, generate_sparql,     *)
(* execute_sparql_to_wikidata, run, chat).                                 *)
(*                                                                         *)
(* Text is a sequence of atomic pieces (characters for questions, lexical  *)
(* pieces for model output); the string operations of the code (in,        *)
(* lower, replace, split(...)[-1], strip, the fence regex) are computed on *)
(* those sequences.  Python values that may be None, a str or a list are   *)
(* tagged records.  The answers of the three outside services (generation  *)
(* endpoint, entity search, query endpoint) are inputs of the actions.     *)
(***************************************************************************)
EXTENDS Integers, Sequences, FiniteSets, TLC

VARIABLES
    messages,            \* st.session_state["messages"]
    pc,                  \* position of the chat_input handler
    question,            \* main.py: question (the text handed to chat)
    qwords,              \* the words the question was typed from
    extracted_entities,  \* run: extracted_entities
    search_i,            \* get_entity_ids: index of the for loop over entities
    retrieved,           \* get_entity_ids: retrieved_wikidata_matched_entities
    entity_ids,          \* run: entity_ids
    llm_raw,             \* generate_sparql: raw_response before postprocessing
    raw_response,        \* generate_sparql: raw_response after postprocessing
    query,               \* run: query
    sparql_q,            \* self.sparqlwd: the query string held by the client
    result,              \* run: result
    wikidata_context,    \* chat: wikidata_context (what run returned)
    chat_ret,            \* what chat returned
    exc,                 \* the exception travelling up to main.py, or "none"
    response,            \* main.py: response (recorded and written)
    calls,               \* calls to the outside services made for this question
    entity_response,     \* extract_entity: response (the generated text)
    ids_response,        \* get_entity_ids: response (the generated text)
    results,             \* execute_sparql_to_wikidata: results
    chat_args,           \* chat: the arguments of llm_chain.run
    stub,                \* SpecStub: what the services have answered, by request
    o_pc,                \* SpecShared: position of a second run on the instance
    o_query,             \* SpecShared: query of the second run
    o_result             \* SpecShared: result of the second run

vars == <<messages, pc, question, qwords, extracted_entities, search_i, retrieved,
          entity_ids, llm_raw, raw_response, query, sparql_q, result,
          wikidata_context, chat_ret, exc, response, calls, entity_response,
          ids_response, results, chat_args, stub, o_pc, o_query, o_result>>

\* What the handling of one prompt by one run leaves alone.
aux == <<stub, o_pc, o_query, o_result>>

(***************************************************************************)
(* Bounds of the model.                                                    *)
(***************************************************************************)
MaxPrompts == 2      \* prompts submitted in one session
MaxWords == 3        \* words of a question in the post-processing check
MaxRows == 2         \* binding rows of an answer of the query endpoint
MaxMentions == 2     \* mentions handed to get_entity_ids in the search check

(***************************************************************************)
(* Python values.                                                          *)
(***************************************************************************)
PyNone == [t |-> "None"]
PyStr(s) == [t |-> "str", v |-> s]
PyList(l) == [t |-> "list", v |-> l]
Unset == [t |-> "unset"]

IsNone(x) == x.t = "None"
IsStr(x) == x.t = "str"
IsList(x) == x.t = "list"

\* Truthy with the test written as "is not None"
Truthy_NotNone(x) == x.t # "None"

\* bool(x): None, "" and [] are false.
Truthy(x) == /\ x.t \in {"str", "list"}
             /\ x.v # <<>>

Range(s) == {s[i] : i \in 1..Len(s)}

(***************************************************************************)
(* String operations.                                                      *)
(***************************************************************************)
\* p occurs in s at position i
OccursAt(p, s, i) ==
    /\ i >= 1
    /\ i + Len(p) - 1 <= Len(s)
    /\ \A k \in 1..Len(p) : s[i + k - 1] = p[k]

\* Python: p in s
Contains(p, s) == \E i \in 1..(Len(s) + 1) : OccursAt(p, s, i)

\* str.lower() on the letters the questions are written with
LowerChar(c) ==
    CASE c = "O" -> "o"
      [] c = "R" -> "r"
      [] c = "S" -> "s"
      [] c = "D" -> "d"
      [] c = "E" -> "e"
      [] c = "T" -> "t"
      [] c = "A" -> "a"
      [] c = "N" -> "n"
      [] c = "M" -> "m"
      [] OTHER -> c

Lower(s) == [i \in 1..Len(s) |-> LowerChar(s[i])]

\* str.replace(p, r): the occurrences of p, left to right and not overlapping,
\* each replaced by r; the result is not scanned again.
RECURSIVE ReplaceFrom(_, _, _, _)
ReplaceFrom(s, p, r, i) ==
    IF i > Len(s) THEN <<>>
    ELSE IF OccursAt(p, s, i) THEN r \o ReplaceFrom(s, p, r, i + Len(p))
    ELSE <<s[i]>> \o ReplaceFrom(s, p, r, i + 1)

Replace(s, p, r) == IF p = <<>> THEN s ELSE ReplaceFrom(s, p, r, 1)

\* s.split(m)[-1]: what follows the last piece-separating occurrence of m
RECURSIVE SplitLastFrom(_, _, _, _)
SplitLastFrom(s, m, i, start) ==
    IF i > Len(s) THEN SubSeq(s, start, Len(s))
    ELSE IF OccursAt(m, s, i) THEN SplitLastFrom(s, m, i + Len(m), i + Len(m))
    ELSE SplitLastFrom(s, m, i + 1, start)

SplitLast(s, m) == SplitLastFrom(s, m, 1, 1)

Whitespace == {" ", "\n"}

\* str.strip()
RECURSIVE LStrip(_)
LStrip(s) == IF s # <<>> /\ Head(s) \in Whitespace THEN LStrip(Tail(s)) ELSE s

RECURSIVE RStrip(_)
RStrip(s) ==
    IF s # <<>> /\ s[Len(s)] \in Whitespace THEN RStrip(SubSeq(s, 1, Len(s) - 1)) ELSE s

Strip(s) == RStrip(LStrip(s))

(***************************************************************************)
(* Fixed texts of the program.                                             *)
(***************************************************************************)
GREETING ==
    <<"Hi, I'm a chatbot who can answer your question based on Wikidata. How can I help you?">>
UNSUPPORTED_MSG == <<"Sorry, we are not supported with this kind of query yet.">>
REFUSAL_MSG == <<"Sorry, we are not supported with this kind of question yet.">>
APOLOGY_MSG ==
    <<"Sorry, I couldn't find an answer to your question. Please try again with another question.">>

MAIN_MODEL_NAME == "mistralai/Mistral-Nemo-Instruct-2407"
DEFAULT_MODEL_NAME == "mistralai/Mistral-7B-Instruct-v0.3"

QUESTION_MARKER == <<"## QUESTION">>
SPARQL_MARKER == <<"SPARQL Query: ">>
ANSWER_MARKER == <<"## ANSWER\n">>

\* The fence of three backquotes, and the same followed by the word sparql
\* (which therefore also starts with a fence).
FENCE == "[fence]"
SPARQL_FENCE == "[fence]sparql"

RAND_CLAUSE == <<"ORDER BY ", "RAND()">>
DESC_RAND_CLAUSE == <<"ORDER BY ", "DESC(", "RAND()", ")">>
ASC_RAND_CLAUSE == <<"ORDER BY ", "ASC(", "RAND()", ")">>

KW_ORDER == <<"o", "r", "d", "e", "r">>
KW_SORT == <<"s", "o", "r", "t">>
KW_RANDOM == <<"r", "a", "n", "d", "o", "m">>

TopK == 5

\* generate_sparql 386-990: the ids of the properties listed in the prompt
PREDICATE_CATALOG ==
    { "P2860", "P1545", "P2093", "P31", "P813", "P248", "P854", "P698",
      "P1476", "P577", "P1433", "P304", "P478", "P433", "P356", "P1215",
      "P1227", "P50", "P921", "P528", "P407", "P972", "P1932", "P17",
      "P585", "P131", "P580", "P932", "P459", "P106", "P625", "P21",
      "P1810", "P6259", "P887", "P214", "P6257", "P6258", "P3083", "P735",
      "P2671", "P59", "P703", "P569", "P4656", "P582", "P143", "P2214",
      "P953", "P373", "P18", "P27", "P10752", "P10751", "P734", "P6769",
      "P361", "P279", "P2216", "P5875", "P195", "P646", "P684", "P6216",
      "P1566", "P171", "P225", "P105", "P1082", "P276", "P19", "P2583",
      "P2326", "P570", "P1057", "P571", "P69", "P846", "P971", "P973",
      "P11797", "P351", "P1087", "P227", "P1412", "P235", "P1813", "P244",
      "P7793", "P1001", "P352", "P1435", "P275", "P155", "P1104", "P156",
      "P108", "P527", "P496", "P1343" }

\* generate_sparql 992-1174: the property ids used by the query of each worked
\* example of the prompt, example by example
EXEMPLAR_PREDICATES ==
    << {"P31"},                                        \* Cats
       {"P18"},                                        \* Picture of Cats
       {"P31", "P18"},                                 \* Cats, with pictures
       {"P31", "P17"},                                 \* Titles of articles ...
       {"P570"},                                       \* Humans who died on ...
       {"P31", "P2067"},                               \* The top 10 heaviest humans
       {"P31"},                                        \* Number of humans in Wikidata
       {"P31", "P279", "P6", "P21", "P582", "P17"},    \* List of countries ...
       {"P31", "P1971", "P569"} >>                     \* Average number of children ...

(***************************************************************************)
(* Questions: words typed by the user, joined by blanks.                   *)
(***************************************************************************)
W_cat == <<"c", "a", "t">>
W_order == <<"o", "r", "d", "e", "r">>
W_Order == <<"O", "R", "D", "E", "R">>
W_border == <<"b", "o", "r", "d", "e", "r">>
W_sort == <<"s", "o", "r", "t">>
W_Sorted == <<"S", "o", "r", "t", "e", "d">>
W_random == <<"r", "a", "n", "d", "o", "m">>
W_Random == <<"R", "a", "n", "d", "o", "m">>

Vocabulary == {W_cat, W_order, W_Order, W_border, W_sort, W_Sorted, W_random, W_Random}

\* The keyword a word carries, whatever its case: the table the questions are
\* written from, independent of the substring search of the program.
KeywordOf(w) ==
    CASE w \in {W_order, W_Order, W_border} -> "order"
      [] w \in {W_sort, W_Sorted} -> "sort"
      [] w \in {W_random, W_Random} -> "random"
      [] OTHER -> "-"

KeywordsOf(ws) == {KeywordOf(ws[i]) : i \in 1..Len(ws)} \ {"-"}

RECURSIVE Join(_)
Join(ws) ==
    IF ws = <<>> THEN <<>>
    ELSE IF Len(ws) = 1 THEN ws[1]
    ELSE ws[1] \o <<" ">> \o Join(Tail(ws))

BoundedSeq(S, n) == UNION {[1..k -> S] : k \in 0..n}

\* The prompts typed in a session.
Prompts == {<<W_cat>>, <<W_Random, W_cat>>}

\* The questions the post-processing rule is checked on.
RuleQuestions == BoundedSeq(Vocabulary, MaxWords)

\* Labels the search index knows, with the number of entries it ranks for each,
\* and the ids of those entries in ranking order.
Hits == [Earth |-> 1, Cat |-> 3, Paris |-> 5, Berlin |-> 7]
ItemIds == <<"Q2", "Q146", "Q90", "Q64", "Q1", "Q3", "Q4">>

(***************************************************************************)
(* The outside services.                                                   *)
(***************************************************************************)
\* wbsearchentities: the ranked entries of the search index for a label.
SearchIndex(label) ==
    CASE label = "Human" ->
             << [id |-> "Q5", label |-> "human", description |-> "any member of Homo sapiens"],
                [id |-> "Q15978631", label |-> "Homo sapiens", description |-> "species"],
                [id |-> "Q20094897", label |-> "Human"],
                [id |-> "Q1156970", label |-> "Human", description |-> "album"],
                [id |-> "Q730920", label |-> "Human", description |-> "song"],
                [id |-> "Q3143036", label |-> "Human", description |-> "film"] >>
      [] label \in DOMAIN Hits ->
             [k \in 1..Hits[label] |->
                 [id |-> ItemIds[k], label |-> label, description |-> "item"]]
      [] OTHER -> <<>>

\* What the generation endpoint may answer to the extraction prompt: text that
\* parses against the schema (json = TRUE) with its "entities", or not.
ExtractOutputs ==
    { [json |-> FALSE, entities |-> <<>>],
      [json |-> TRUE, entities |-> <<>>],
      [json |-> TRUE, entities |-> <<"Human">>],
      [json |-> TRUE, entities |-> <<"Human", "xqzplk">>] }

E_human == [id |-> "Q5", label |-> "human", description |-> "any member of Homo sapiens"]
E_film == [id |-> "Q3143036", label |-> "Human", description |-> "film"]
E_made_up == [id |-> "Q999999", label |-> "human", description |-> "made up"]

\* What the generation endpoint may answer to the disambiguation prompt: the
\* quoting of the JSON text, whether it fits the EntityIds schema, its "ids".
DisambOutputs ==
    { [quote |-> "double", schema |-> TRUE, ids |-> <<>>],
      [quote |-> "double", schema |-> TRUE, ids |-> <<E_human>>],
      [quote |-> "single", schema |-> TRUE, ids |-> <<E_human>>],
      [quote |-> "single_apostrophe", schema |-> TRUE, ids |-> <<E_human>>],
      [quote |-> "double", schema |-> FALSE, ids |-> <<E_human>>],
      [quote |-> "double", schema |-> TRUE, ids |-> <<E_made_up>>],
      [quote |-> "double", schema |-> TRUE, ids |-> <<E_human, E_film, E_made_up>>] }

\* What the generation endpoint may answer to the synthesis prompt.
SynthOutputs ==
    { <<"## QUESTION", "Thoughts", "SPARQL Query: ", "SELECT ?x">>,
      <<"## QUESTION", "Thoughts", "SPARQL Query: ", SPARQL_FENCE, FENCE>>,
      <<SPARQL_FENCE, "EXEMPLAR", FENCE, "## QUESTION", "Thoughts", "SPARQL Query: ",
        SPARQL_FENCE, "\n", "SELECT ?x", "\n", FENCE>>,
      <<"## QUESTION", "SPARQL Query: ", SPARQL_FENCE, "SELECT ?x", " ",
        "ORDER BY ", "RAND()", FENCE>>,
      <<"## QUESTION", "SPARQL Query: ", SPARQL_FENCE, "SELECT ?x", " ",
        "ORDER BY ", "DESC(", "RAND()", ")", "\n", FENCE>>,
      <<"## QUESTION", "SPARQL Query: ", SPARQL_FENCE, "SELECT ?x", " ",
        "ORDER BY ", "ORDER BY ", "RAND()", "RAND()", FENCE>>,
      <<"## QUESTION", "SPARQL Query: ", SPARQL_FENCE, "SELECT ?x WHERE { ?x ",
        "wdt:P31", " wd:Q5 . ?x ", "wdt:P1971", " ?n }", FENCE>> }

\* What the query endpoint may answer: an error, or head.vars and
\* results.bindings (a row binds a variable or leaves it out).
KBResponses ==
    { [status |-> "ok", head |-> <<"count">>, bindings |-> <<>>],
      [status |-> "ok", head |-> <<"count">>, bindings |-> << [count |-> "8000000000"] >>],
      [status |-> "ok", head |-> <<"x", "xLabel">>,
       bindings |-> << [x |-> "Q5", xLabel |-> "human"], [x |-> "Q146", xLabel |-> "cat"] >>],
      [status |-> "ok", head |-> <<"x", "xLabel">>,
       bindings |-> << [x |-> "Q5", xLabel |-> "human"], [x |-> "Q146"] >>] }

\* What the generation endpoint may answer to the answer prompt.
AnswerOutputs ==
    { <<"PROMPT", "## ANSWER\n", "There are 8000000000 humans.">>,
      <<"PROMPT", "## ANSWER\n">>,
      <<"PROMPT", "## ANSWER\n", "I don't know.">> }

(***************************************************************************)
(* The functions of WikidataGraphRAG.  A function that may raise returns   *)
(* [raised |-> the exception or "none", value |-> what it returns].        *)
(***************************************************************************)
Return(v) == [raised |-> "none", value |-> v]
Raise(e) == [raised |-> e, value |-> Unset]

Min(a, b) == IF a <= b THEN a ELSE b
Least(S) == CHOOSE i \in S : \A j \in S : i <= j

\* dict[k] = v on a dict kept as the sequence of its <<key, value>> items
DictPut(d, k, v) ==
    IF \E i \in 1..Len(d) : d[i][1] = k
    THEN [i \in 1..Len(d) |-> IF d[i][1] = k THEN <<k, v>> ELSE d[i]]
    ELSE Append(d, <<k, v>>)

DictKeys(d) == {d[i][1] : i \in 1..Len(d)}
DictGet(d, k) == d[CHOOSE i \in 1..Len(d) : d[i][1] = k][2]

\* _fetch_wikidata: the response of requests.get, or the error text when it throws
FetchWikidata(outcome, label) ==
    IF outcome = "transport_error"
    THEN PyStr(<<"There was and error">>)
    ELSE [t |-> "response", body |-> outcome, search |-> SearchIndex(label)]

\* item.get("description", "")
ItemDescription(item) ==
    IF "description" \in DOMAIN item THEN item.description ELSE ""

\* GetWikidataEntities that keeps every entry of data["search"]
GetWikidataEntities_All(data) ==
    IF data.t # "response" THEN Raise("AttributeError")
    ELSE IF data.body = "not_json" THEN Raise("JSONDecodeError")
    ELSE IF data.body = "no_search_key" THEN Raise("KeyError")
    ELSE Return([i \in 1..Len(data.search) |->
                    [id |-> data.search[i].id,
                     label |-> data.search[i].label,
                     description |-> ItemDescription(data.search[i])]])

\* _get_wikidata_entities on what _fetch_wikidata returned
GetWikidataEntities(data) ==
    IF data.t # "response" THEN Raise("AttributeError")
    ELSE IF data.body = "not_json" THEN Raise("JSONDecodeError")
    ELSE IF data.body = "no_search_key" THEN Raise("KeyError")
    ELSE Return([i \in 1..Min(TopK, Len(data.search)) |->
                    [id |-> data.search[i].id,
                     label |-> data.search[i].label,
                     description |-> ItemDescription(data.search[i])]])

SearchOutcomes == {"json", "transport_error", "not_json", "no_search_key"}

\* ExtractEntityReturn that falls back to no entities when the text does not parse
ExtractEntityReturn_EmptyOnError(o) ==
    IF o.json THEN Return(o.entities) ELSE Return(<<>>)

\* StructuredOutputParser.parse(...).get("entities", []) in extract_entity
ExtractEntityReturn(o) ==
    IF o.json THEN Return(o.entities) ELSE Raise("OutputParserException")

\* PydanticOutputParser.parse on the disambiguation text
ParsesAsEntityIds(o) == o.quote = "double" /\ o.schema

\* response.replace("'", '"')
ReplaceQuotes(o) ==
    [o EXCEPT !.quote = CASE o.quote = "single" -> "double"
                          [] o.quote = "single_apostrophe" -> "broken"
                          [] OTHER -> o.quote]

\* GetEntityIdsReturn without the second parse
GetEntityIdsReturn_NoRetry(o) ==
    IF ParsesAsEntityIds(o) THEN Return(o.ids)
    ELSE Raise("OutputParserException")

\* get_entity_ids, from the response of the generation call on
GetEntityIdsReturn(o) ==
    IF ParsesAsEntityIds(o) THEN Return(o.ids)
    ELSE IF ParsesAsEntityIds(ReplaceQuotes(o)) THEN Return(ReplaceQuotes(o).ids)
    ELSE Raise("OutputParserException")

\* _extract_sparql_query: re.search(r"[fence]sparql(.*?)[fence]", text, re.DOTALL)
IsFenceStart(piece) == piece \in {FENCE, SPARQL_FENCE}

ExtractSparqlQuery(text) ==
    LET closes(i) == {j \in (i + 1)..Len(text) : IsFenceStart(text[j])}
        opens == {i \in 1..Len(text) : text[i] = SPARQL_FENCE /\ closes(i) # {}}
    IN  IF opens = {} THEN PyNone
        ELSE LET i == Least(opens)
                 j == Least(closes(i))
             IN  PyStr(Strip(SubSeq(text, i + 1, j - 1)))

\* StripRule with "and" between the first two tests: strip unless any of the
\* three keywords is present
StripRule_AnyKeyword(q) ==
    /\ ~Contains(KW_ORDER, Lower(q))
    /\ ~Contains(KW_SORT, Lower(q))
    /\ ~Contains(KW_RANDOM, Lower(q))

\* generate_sparql: the condition of the postprocessing
StripRule(q) ==
    /\ (~Contains(KW_ORDER, Lower(q)) \/ ~Contains(KW_SORT, Lower(q)))
    /\ ~Contains(KW_RANDOM, Lower(q))

\* generate_sparql: the postprocessing of raw_response
Postprocess(q, raw) ==
    IF StripRule(q)
    THEN Replace(Replace(Replace(raw, RAND_CLAUSE, <<>>), DESC_RAND_CLAUSE, <<>>),
                 ASC_RAND_CLAUSE, <<>>)
    ELSE raw

\* IsEmptyQuery with the test written as "query is None"
IsEmptyQuery_NoneOnly(q) == IsNone(q)

\* run: query == ""
IsEmptyQuery(q) == IsStr(q) /\ q.v = <<>>

\* execute_sparql_to_wikidata: tmp, the dict built from one binding row
RECURSIVE RowDict(_, _, _)
RowDict(head, row, n) ==
    IF n = 0 THEN <<>>
    ELSE DictPut(RowDict(head, row, n - 1), head[n], row[head[n]])

\* ExecuteTry whose except clause returns an error text, as _fetch_wikidata does
ExecuteTry_ErrorText(kb) ==
    IF kb.status = "error" THEN PyStr(<<"There was and error">>)
    ELSE PyList([r \in 1..Len(kb.bindings) |->
                    RowDict(kb.head, kb.bindings[r], Len(kb.head))])

\* ExecuteTry that puts each record in front of results_cleaned
ExecuteTry_Reversed(kb) ==
    IF kb.status = "error" THEN PyNone
    ELSE IF \E r \in 1..Len(kb.bindings) :
                \E h \in 1..Len(kb.head) : kb.head[h] \notin DOMAIN kb.bindings[r]
         THEN PyNone
         ELSE PyList([r \in 1..Len(kb.bindings) |->
                         RowDict(kb.head, kb.bindings[Len(kb.bindings) + 1 - r],
                                 Len(kb.head))])

\* ExecuteTry with the try inside the loop: a row that lacks a header
\* variable is left out and the other rows are returned
ExecuteTry_SkipIncomplete(kb) ==
    IF kb.status = "error" THEN PyNone
    ELSE LET whole(r) == \A h \in 1..Len(kb.head) : kb.head[h] \in DOMAIN r
             rows == SelectSeq(kb.bindings, whole)
         IN  PyList([r \in 1..Len(rows) |-> RowDict(kb.head, rows[r], Len(kb.head))])

\* execute_sparql_to_wikidata: the try block, on what the endpoint answered
ExecuteTry(kb) ==
    IF kb.status = "error" THEN PyNone
    ELSE IF \E r \in 1..Len(kb.bindings) :
                \E h \in 1..Len(kb.head) : kb.head[h] \notin DOMAIN kb.bindings[r]
         THEN PyNone
         ELSE PyList([r \in 1..Len(kb.bindings) |->
                         RowDict(kb.head, kb.bindings[r], Len(kb.head))])

KBOutcomes == {[status |-> "error"]} \cup KBResponses

(***************************************************************************)
(* The state machine: one prompt is handled by main.py from the           *)
(* chat_input to st.write(response), stage by stage.  An action named     *)
(* ...On takes what the outside service answered; the action without On   *)
(* is the stage on any answer.                                            *)
(***************************************************************************)
EmptyDict == <<>>
DEFAULT_QUERY == <<"SELECT * WHERE{ ?s ?p ?o }">>

\* An entry of calls: the service (or the executor) called, for which stage or
\* label, with which model, and how the call ended.
LlmCall(stage, model, outcome) ==
    [kind |-> "llm", stage |-> stage, model |-> model, outcome |-> outcome]
SearchCall(label, outcome) ==
    [kind |-> "search", stage |-> label, model |-> "-", outcome |-> outcome]
ExecuteCall ==
    [kind |-> "execute", stage |-> "execute_sparql_to_wikidata", model |-> "-",
     outcome |-> "-"]
EndpointCall(outcome) ==
    [kind |-> "endpoint", stage |-> "query", model |-> "-", outcome |-> outcome]

UserMessages(ms) == SelectSeq(ms, LAMBDA m : m.role = "user")

\* How a generation call may end: it raises, or it returns one of the texts.
Failed == [status |-> "error"]
Returned(o) == [status |-> "ok", out |-> o]
ExtractChoices == {Failed} \cup {Returned(o) : o \in ExtractOutputs}
DisambChoices == {Failed} \cup {Returned(o) : o \in DisambOutputs}
SynthChoices == {Failed} \cup {Returned(o) : o \in SynthOutputs}
\* chat: PromptTemplate may refuse the template before any call is made
AnswerChoices ==
    {[status |-> "invalid_prompt"], Failed} \cup {Returned(o) : o \in AnswerOutputs}

\* The locals of one handling of a prompt, before any stage has run.
FreshLocals ==
    /\ extracted_entities = <<>>
    /\ search_i = 0
    /\ retrieved = EmptyDict
    /\ entity_ids = <<>>
    /\ llm_raw = <<>>
    /\ raw_response = <<>>
    /\ query = Unset
    /\ sparql_q = DEFAULT_QUERY
    /\ result = Unset
    /\ wikidata_context = Unset
    /\ chat_ret = Unset
    /\ exc = "none"
    /\ calls = <<>>
    /\ entity_response = Unset
    /\ ids_response = Unset
    /\ results = Unset
    /\ chat_args = Unset

\* No answer recorded yet, and no second run on the instance.
FreshAux ==
    /\ stub = <<>>
    /\ o_pc = "off"
    /\ o_query = Unset
    /\ o_result = Unset

Init ==
    /\ messages = << [role |-> "assistant", content |-> GREETING] >>
    /\ pc = "idle"
    /\ question = <<>>
    /\ qwords = <<>>
    /\ response = Unset
    /\ FreshLocals
    /\ FreshAux

\* The contents of the first n messages of ms, one line each
RECURSIVE AllContents(_, _)
AllContents(ms, n) ==
    IF n = 0 THEN <<>>
    ELSE IF n = 1 THEN ms[1].content
    ELSE AllContents(ms, n - 1) \o <<"\n">> \o ms[n].content

\* Submit that hands chat every prompt of the session, not the last one only
Submit_AllUserMessages(ws) ==
    /\ pc = "idle"
    /\ Len(UserMessages(messages)) < MaxPrompts
    /\ messages' = Append(messages, [role |-> "user", content |-> Join(ws)])
    /\ question' = AllContents(UserMessages(messages'), Len(UserMessages(messages')))
    /\ qwords' = ws
    /\ response' = Unset
    /\ pc' = "extract"
    /\ UNCHANGED <<extracted_entities, search_i, retrieved, entity_ids, llm_raw,
                   raw_response, query, sparql_q, result, wikidata_context,
                   chat_ret, exc, calls, entity_response, ids_response, results,
                   chat_args>>

\* Submit that reads the first user message back, not the last
Submit_FirstUserMessage(ws) ==
    /\ pc = "idle"
    /\ Len(UserMessages(messages)) < MaxPrompts
    /\ messages' = Append(messages, [role |-> "user", content |-> Join(ws)])
    /\ question' = UserMessages(messages')[1].content
    /\ qwords' = ws
    /\ response' = Unset
    /\ pc' = "extract"
    /\ UNCHANGED <<extracted_entities, search_i, retrieved, entity_ids, llm_raw,
                   raw_response, query, sparql_q, result, wikidata_context,
                   chat_ret, exc, calls, entity_response, ids_response, results,
                   chat_args>>

\* main.py 34-46: the prompt is recorded, the agent built, the question read back
Submit(ws) ==
    /\ pc = "idle"
    /\ Len(UserMessages(messages)) < MaxPrompts
    /\ messages' = Append(messages, [role |-> "user", content |-> Join(ws)])
    /\ question' = UserMessages(messages')[Len(UserMessages(messages'))].content
    /\ qwords' = ws
    /\ response' = Unset
    /\ pc' = "extract"
    /\ UNCHANGED <<extracted_entities, search_i, retrieved, entity_ids, llm_raw,
                   raw_response, query, sparql_q, result, wikidata_context,
                   chat_ret, exc, calls, entity_response, ids_response, results,
                   chat_args>>

\* An exception leaves the stage and travels up to the try of main.py.
Throw(e) ==
    /\ exc' = e
    /\ pc' = "respond"

\* run 1223: extract_entity
ExtractEntityOn(c) ==
    /\ pc = "extract"
    /\ calls' = Append(calls, LlmCall("extract_entity", MAIN_MODEL_NAME, c.status))
    /\ IF c.status = "error"
       THEN /\ Throw("GenerationError")
            /\ UNCHANGED <<entity_response, extracted_entities>>
       ELSE /\ entity_response' = c.out
            /\ LET r == ExtractEntityReturn(c.out)
               IN  IF r.raised # "none"
                   THEN Throw(r.raised) /\ UNCHANGED extracted_entities
                   ELSE /\ extracted_entities' = r.value
                        /\ pc' = "search"
                        /\ UNCHANGED exc
    /\ search_i' = 1
    /\ UNCHANGED <<messages, question, qwords, retrieved, entity_ids, llm_raw,
                   raw_response, query, sparql_q, result, wikidata_context,
                   chat_ret, response, ids_response, results, chat_args>>

ExtractEntity == (\E c \in ExtractChoices : ExtractEntityOn(c)) /\ UNCHANGED aux

\* get_entity_ids 192-195: one turn of the loop over the entities
SearchEntityOn(outcome) ==
    /\ pc = "search"
    /\ search_i <= Len(extracted_entities)
    /\ LET entity == extracted_entities[search_i]
           r == GetWikidataEntities(FetchWikidata(outcome, entity))
       IN  /\ calls' = Append(calls, SearchCall(entity, outcome))
           /\ IF r.raised # "none"
              THEN Throw(r.raised) /\ UNCHANGED <<retrieved, search_i>>
              ELSE /\ retrieved' = DictPut(retrieved, entity, r.value)
                   /\ search_i' = search_i + 1
                   /\ UNCHANGED <<pc, exc>>
    /\ UNCHANGED <<messages, question, qwords, extracted_entities, entity_ids, llm_raw,
                   raw_response, query, sparql_q, result, wikidata_context,
                   chat_ret, response, entity_response, ids_response, results,
                   chat_args>>

SearchEntity == (\E outcome \in SearchOutcomes : SearchEntityOn(outcome)) /\ UNCHANGED aux

\* DisambiguateOn reached from inside the loop: the call is made for the
\* mentions searched so far
DisambiguateOn_Early(c) ==
    /\ pc = "search"
    /\ calls' = Append(calls, LlmCall("get_entity_ids", MAIN_MODEL_NAME, c.status))
    /\ IF c.status = "error"
       THEN /\ Throw("GenerationError")
            /\ UNCHANGED <<ids_response, entity_ids>>
       ELSE /\ ids_response' = c.out
            /\ LET r == GetEntityIdsReturn(c.out)
               IN  IF r.raised # "none"
                   THEN Throw(r.raised) /\ UNCHANGED entity_ids
                   ELSE /\ entity_ids' = r.value
                        /\ pc' = "synthesize"
                        /\ UNCHANGED exc
    /\ retrieved' = EmptyDict
    /\ search_i' = 0
    /\ UNCHANGED <<messages, question, qwords, extracted_entities, llm_raw,
                   raw_response, query, sparql_q, result, wikidata_context,
                   chat_ret, response, entity_response, results, chat_args>>

\* get_entity_ids 347-359: the generation call and the parse of its response
DisambiguateOn(c) ==
    /\ pc = "search"
    /\ search_i > Len(extracted_entities)
    /\ calls' = Append(calls, LlmCall("get_entity_ids", MAIN_MODEL_NAME, c.status))
    /\ IF c.status = "error"
       THEN /\ Throw("GenerationError")
            /\ UNCHANGED <<ids_response, entity_ids>>
       ELSE /\ ids_response' = c.out
            /\ LET r == GetEntityIdsReturn(c.out)
               IN  IF r.raised # "none"
                   THEN Throw(r.raised) /\ UNCHANGED entity_ids
                   ELSE /\ entity_ids' = r.value
                        /\ pc' = "synthesize"
                        /\ UNCHANGED exc
    /\ retrieved' = EmptyDict
    /\ search_i' = 0
    /\ UNCHANGED <<messages, question, qwords, extracted_entities, llm_raw,
                   raw_response, query, sparql_q, result, wikidata_context,
                   chat_ret, response, entity_response, results, chat_args>>

Disambiguate == (\E c \in DisambChoices : DisambiguateOn(c)) /\ UNCHANGED aux

\* run 1231-1236: generate_sparql
GenerateSparqlOn(c) ==
    /\ pc = "synthesize"
    /\ calls' = Append(calls, LlmCall("generate_sparql", MAIN_MODEL_NAME, c.status))
    /\ IF c.status = "error"
       THEN /\ Throw("GenerationError")
            /\ UNCHANGED <<llm_raw, raw_response, query>>
       ELSE /\ llm_raw' = SplitLast(c.out, QUESTION_MARKER)
            /\ raw_response' = Postprocess(question, llm_raw')
            /\ query' = ExtractSparqlQuery(SplitLast(raw_response', SPARQL_MARKER))
            /\ pc' = "execute"
            /\ UNCHANGED exc
    /\ UNCHANGED <<messages, question, qwords, extracted_entities, search_i, retrieved,
                   entity_ids, sparql_q, result, wikidata_context, chat_ret, response,
                   entity_response, ids_response, results, chat_args>>

GenerateSparql == (\E c \in SynthChoices : GenerateSparqlOn(c)) /\ UNCHANGED aux

\* RunUnsupported that asks generate_sparql again when the query is empty
RunUnsupported_Retry ==
    /\ pc = "execute"
    /\ IsEmptyQuery(query)
    /\ query' = Unset
    /\ pc' = "synthesize"
    /\ UNCHANGED <<messages, question, qwords, extracted_entities, search_i, retrieved,
                   entity_ids, llm_raw, raw_response, sparql_q, result,
                   wikidata_context, chat_ret, exc, response, calls, entity_response,
                   ids_response, results, chat_args>>
    /\ UNCHANGED aux

\* run 1237-1238: the empty query is answered without the executor
RunUnsupported ==
    /\ pc = "execute"
    /\ IsEmptyQuery(query)
    /\ wikidata_context' = PyStr(UNSUPPORTED_MSG)
    /\ pc' = "chat"
    /\ UNCHANGED <<messages, question, qwords, extracted_entities, search_i, retrieved,
                   entity_ids, llm_raw, raw_response, query, sparql_q, result,
                   chat_ret, exc, response, calls, entity_response, ids_response,
                   results, chat_args>>
    /\ UNCHANGED aux

\* run 1239-1243 and execute_sparql_to_wikidata 74-75: setQuery takes a str and
\* raises TypeError for anything else, outside the try of the executor and
\* inside the try of run.
SetQuery ==
    /\ pc = "execute"
    /\ ~IsEmptyQuery(query)
    /\ calls' = Append(calls, ExecuteCall)
    /\ IF IsStr(query)
       THEN /\ sparql_q' = query.v
            /\ pc' = "query"
            /\ UNCHANGED <<result, wikidata_context>>
       ELSE /\ result' = PyList(<<>>)
            /\ wikidata_context' = result'
            /\ pc' = "chat"
            /\ UNCHANGED sparql_q
    /\ UNCHANGED <<messages, question, qwords, extracted_entities, search_i, retrieved,
                   entity_ids, llm_raw, raw_response, query, chat_ret, exc, response,
                   entity_response, ids_response, results, chat_args>>
    /\ UNCHANGED aux

\* execute_sparql_to_wikidata 76-87, then run 1244-1246: the endpoint answers
\* the query the client holds
QueryConvertOn(kb) ==
    /\ pc = "query"
    /\ calls' = Append(calls, EndpointCall(kb.status))
    /\ results' = IF kb.status = "error" THEN results ELSE kb
    /\ result' = ExecuteTry(kb)
    /\ wikidata_context' = result'
    /\ pc' = "chat"
    /\ UNCHANGED <<messages, question, qwords, extracted_entities, search_i, retrieved,
                   entity_ids, llm_raw, raw_response, query, sparql_q, chat_ret, exc,
                   response, entity_response, ids_response, chat_args>>

QueryConvert == (\E kb \in KBOutcomes : QueryConvertOn(kb)) /\ UNCHANGED aux

\* chat 1255-1256
ChatRefuse ==
    /\ pc = "chat"
    /\ ~Truthy(wikidata_context)
    /\ chat_ret' = PyStr(REFUSAL_MSG)
    /\ pc' = "respond"
    /\ UNCHANGED <<messages, question, qwords, extracted_entities, search_i, retrieved,
                   entity_ids, llm_raw, raw_response, query, sparql_q, result,
                   wikidata_context, exc, response, calls, entity_response,
                   ids_response, results, chat_args>>
    /\ UNCHANGED aux

\* chat 1257-1300: the prompt is built (its input_variables name entity_ids,
\* which the template does not hold: PromptTemplate raises where it validates
\* the template), then the generation call is made with chat's own model_name
ChatGenerateOn(c) ==
    /\ pc = "chat"
    /\ Truthy(wikidata_context)
    /\ IF c.status = "invalid_prompt"
       THEN /\ Throw("ValueError")
            /\ UNCHANGED <<chat_ret, calls, chat_args>>
       ELSE /\ calls' = Append(calls, LlmCall("chat", DEFAULT_MODEL_NAME, c.status))
            /\ chat_args' = [question |-> question,
                             wikidata_context |-> wikidata_context]
            /\ IF c.status = "error"
               THEN Throw("GenerationError") /\ UNCHANGED chat_ret
               ELSE /\ chat_ret' = PyStr(SplitLast(c.out, ANSWER_MARKER))
                    /\ pc' = "respond"
                    /\ UNCHANGED exc
    /\ UNCHANGED <<messages, question, qwords, extracted_entities, search_i, retrieved,
                   entity_ids, llm_raw, raw_response, query, sparql_q, result,
                   wikidata_context, response, entity_response, ids_response,
                   results>>

ChatGenerate == (\E c \in AnswerChoices : ChatGenerateOn(c)) /\ UNCHANGED aux

\* ResponseFor with an except clause that catches the parser's exception only
ResponseFor_ParserOnly(e, ret) ==
    IF e = "OutputParserException" THEN PyStr(APOLOGY_MSG)
    ELSE IF e # "none" THEN PyStr(<<"Traceback (most recent call last)">>)
    ELSE ret

\* main.py 47-51: the value of response
ResponseFor(e, ret) == IF e # "none" THEN PyStr(APOLOGY_MSG) ELSE ret

\* Respond that records the response only when chat returned
Respond_SkipOnError ==
    /\ pc = "respond"
    /\ response' = ResponseFor(exc, chat_ret)
    /\ messages' = IF exc # "none" THEN messages
                   ELSE Append(messages, [role |-> "assistant", content |-> response'.v])
    /\ pc' = "idle"
    /\ question' = <<>>
    /\ qwords' = <<>>
    /\ extracted_entities' = <<>>
    /\ search_i' = 0
    /\ retrieved' = EmptyDict
    /\ entity_ids' = <<>>
    /\ llm_raw' = <<>>
    /\ raw_response' = <<>>
    /\ query' = Unset
    /\ sparql_q' = DEFAULT_QUERY
    /\ result' = Unset
    /\ wikidata_context' = Unset
    /\ chat_ret' = Unset
    /\ exc' = "none"
    /\ calls' = <<>>
    /\ entity_response' = Unset
    /\ ids_response' = Unset
    /\ results' = Unset
    /\ chat_args' = Unset
    /\ UNCHANGED aux

\* main.py 47-53; the handler is over and its locals are gone
Respond ==
    /\ pc = "respond"
    /\ response' = ResponseFor(exc, chat_ret)
    /\ messages' = Append(messages, [role |-> "assistant", content |-> response'.v])
    /\ pc' = "idle"
    /\ question' = <<>>
    /\ qwords' = <<>>
    /\ extracted_entities' = <<>>
    /\ search_i' = 0
    /\ retrieved' = EmptyDict
    /\ entity_ids' = <<>>
    /\ llm_raw' = <<>>
    /\ raw_response' = <<>>
    /\ query' = Unset
    /\ sparql_q' = DEFAULT_QUERY
    /\ result' = Unset
    /\ wikidata_context' = Unset
    /\ chat_ret' = Unset
    /\ exc' = "none"
    /\ calls' = <<>>
    /\ entity_response' = Unset
    /\ ids_response' = Unset
    /\ results' = Unset
    /\ chat_args' = Unset
    /\ UNCHANGED aux

Next ==
    \/ \E ws \in Prompts : Submit(ws) /\ UNCHANGED aux
    \/ ExtractEntity
    \/ SearchEntity
    \/ Disambiguate
    \/ GenerateSparql
    \/ RunUnsupported
    \/ SetQuery
    \/ QueryConvert
    \/ ChatRefuse
    \/ ChatGenerate
    \/ Respond

Spec == Init /\ [][Next]_vars

(***************************************************************************)
(* generate_sparql alone, on every question of RuleQuestions: the state is *)
(* the one run is in when it calls generate_sparql.                        *)
(***************************************************************************)
InitRule ==
    \E ws \in RuleQuestions :
        /\ messages = << [role |-> "assistant", content |-> GREETING],
                         [role |-> "user", content |-> Join(ws)] >>
        /\ pc = "synthesize"
        /\ question = Join(ws)
        /\ qwords = ws
        /\ response = Unset
        /\ FreshLocals
        /\ FreshAux

NextRule == GenerateSparql

SpecRule == InitRule /\ [][NextRule]_vars

(***************************************************************************)
(* The loop of get_entity_ids alone, on every list of up to MaxMentions    *)
(* mentions over SearchLabels: the state is the one run is in when it      *)
(* calls get_entity_ids.                                                   *)
(***************************************************************************)
SearchLabels == {"Human", "xqzplk"} \cup DOMAIN Hits

InitSearch ==
    \E es \in BoundedSeq(SearchLabels, MaxMentions) :
        /\ messages = << [role |-> "assistant", content |-> GREETING],
                         [role |-> "user", content |-> Join(<<W_cat>>)] >>
        /\ pc = "search"
        /\ question = Join(<<W_cat>>)
        /\ qwords = <<W_cat>>
        /\ response = Unset
        /\ extracted_entities = es
        /\ search_i = 1
        /\ retrieved = EmptyDict
        /\ entity_ids = <<>>
        /\ llm_raw = <<>>
        /\ raw_response = <<>>
        /\ query = Unset
        /\ sparql_q = DEFAULT_QUERY
        /\ result = Unset
        /\ wikidata_context = Unset
        /\ chat_ret = Unset
        /\ exc = "none"
        /\ calls = <<LlmCall("extract_entity", MAIN_MODEL_NAME, "ok")>>
        /\ entity_response = [json |-> TRUE, entities |-> es]
        /\ ids_response = Unset
        /\ results = Unset
        /\ chat_args = Unset
        /\ FreshAux

NextSearch == SearchEntity

SpecSearch == InitSearch /\ [][NextSearch]_vars

(***************************************************************************)
(* execute_sparql_to_wikidata alone, on every answer of the endpoint with  *)
(* a header over KBVars and up to MaxRows rows, each row binding some of   *)
(* the variables: the state is the one the executor is in after setQuery.  *)
(***************************************************************************)
KBVars == {"x", "y"}
KBValues == {"a", "b"}
KBHeads ==
    {h \in BoundedSeq(KBVars, Cardinality(KBVars)) :
        \A i, j \in 1..Len(h) : i # j => h[i] # h[j]}
KBRows == UNION {[D -> KBValues] : D \in SUBSET KBVars}
GenKBOutcomes ==
    {[status |-> "error"]}
        \cup {[status |-> "ok", head |-> h, bindings |-> b] :
                 h \in KBHeads, b \in BoundedSeq(KBRows, MaxRows)}

InitExec ==
    /\ messages = << [role |-> "assistant", content |-> GREETING],
                     [role |-> "user", content |-> Join(<<W_cat>>)] >>
    /\ pc = "query"
    /\ question = Join(<<W_cat>>)
    /\ qwords = <<W_cat>>
    /\ response = Unset
    /\ extracted_entities = <<>>
    /\ search_i = 0
    /\ retrieved = EmptyDict
    /\ entity_ids = <<>>
    /\ llm_raw = <<"SPARQL Query: ", SPARQL_FENCE, "SELECT ?x", FENCE>>
    /\ raw_response = llm_raw
    /\ query = PyStr(<<"SELECT ?x">>)
    /\ sparql_q = query.v
    /\ result = Unset
    /\ wikidata_context = Unset
    /\ chat_ret = Unset
    /\ exc = "none"
    /\ calls = <<ExecuteCall>>
    /\ entity_response = Unset
    /\ ids_response = Unset
    /\ results = Unset
    /\ chat_args = Unset
    /\ FreshAux

NextExec == (\E kb \in GenKBOutcomes : QueryConvertOn(kb)) /\ UNCHANGED aux

SpecExec == InitExec /\ [][NextExec]_vars

(***************************************************************************)
(* The same question asked again of services that answer the same request  *)
(* the same way: stub records, request by request, what each service       *)
(* answered and in the handling of which prompt it was first asked.        *)
(***************************************************************************)
StubAllows(kind, req, c) ==
    \A i \in 1..Len(stub) :
        (stub[i].kind = kind /\ stub[i].req = req) => stub[i].resp = c

StubRecord(kind, req, c) ==
    IF \E i \in 1..Len(stub) : stub[i].kind = kind /\ stub[i].req = req
    THEN stub
    ELSE Append(stub, [kind |-> kind, req |-> req, resp |-> c,
                       run |-> Len(UserMessages(messages))])

\* The answer c to the request req is one the service may give, and is recorded.
StubAnswers(kind, req, c) ==
    /\ StubAllows(kind, req, c)
    /\ stub' = StubRecord(kind, req, c)
    /\ UNCHANGED <<o_pc, o_query, o_result>>

\* The stages that call a service, on an answer the service may give.
StubExtractEntity ==
    \E c \in ExtractChoices :
        ExtractEntityOn(c) /\ StubAnswers("extract", question, c)

StubSearchEntity ==
    \E c \in SearchOutcomes :
        SearchEntityOn(c) /\ StubAnswers("search", extracted_entities[search_i], c)

StubDisambiguate ==
    \E c \in DisambChoices :
        DisambiguateOn(c)
            /\ StubAnswers("disamb", <<question, extracted_entities, retrieved>>, c)

StubGenerateSparql ==
    \E c \in SynthChoices :
        GenerateSparqlOn(c) /\ StubAnswers("synth", <<question, entity_ids>>, c)

StubQueryConvert ==
    \E c \in KBOutcomes :
        QueryConvertOn(c) /\ StubAnswers("kb", sparql_q, c)

StubChatGenerate ==
    \E c \in AnswerChoices :
        ChatGenerateOn(c) /\ StubAnswers("answer", <<question, wikidata_context>>, c)

\* main.py 34-46, the prompt being the one already asked (if any)
StubSubmit(ws) ==
    /\ IF UserMessages(messages) = <<>> THEN TRUE
       ELSE UserMessages(messages)[1].content = Join(ws)
    /\ Submit(ws)
    /\ UNCHANGED aux

NextStub ==
    \/ \E ws \in Prompts : StubSubmit(ws)
    \/ StubExtractEntity
    \/ StubSearchEntity
    \/ StubDisambiguate
    \/ StubGenerateSparql
    \/ RunUnsupported
    \/ SetQuery
    \/ StubQueryConvert
    \/ ChatRefuse
    \/ StubChatGenerate
    \/ Respond

SpecStub == Init /\ [][NextStub]_vars

(***************************************************************************)
(* Two runs on one WikidataGraphRAG instance, both about to call           *)
(* execute_sparql_to_wikidata with the query each has synthesized.  The    *)
(* instance holds one SPARQLWrapper (self.sparqlwd); the steps of the two  *)
(* executors interleave.  The endpoint answers a query by KBAnswer.        *)
(***************************************************************************)
SharedQueries ==
    { <<"SELECT (COUNT(?x) AS ?count)">>, <<"SELECT ?x ?xLabel">>, <<"SELECT ?count">> }

\* self.sparqlwd.query().convert(): what the endpoint answers to the query q
KBAnswer(q) ==
    CASE q = <<"SELECT (COUNT(?x) AS ?count)">> ->
             [status |-> "ok", head |-> <<"count">>,
              bindings |-> << [count |-> "8000000000"] >>]
      [] q = <<"SELECT ?x ?xLabel">> ->
             [status |-> "ok", head |-> <<"x", "xLabel">>,
              bindings |-> << [x |-> "Q5", xLabel |-> "human"],
                              [x |-> "Q146", xLabel |-> "cat"] >>]
      [] q = <<"SELECT ?count">> ->
             [status |-> "ok", head |-> <<"count">>, bindings |-> <<>>]
      [] OTHER -> [status |-> "error"]

InitShared ==
    \E q1 \in SharedQueries, q2 \in SharedQueries :
        /\ messages = << [role |-> "assistant", content |-> GREETING],
                         [role |-> "user", content |-> Join(<<W_cat>>)] >>
        /\ pc = "execute"
        /\ question = Join(<<W_cat>>)
        /\ qwords = <<W_cat>>
        /\ response = Unset
        /\ extracted_entities = <<>>
        /\ search_i = 0
        /\ retrieved = EmptyDict
        /\ entity_ids = <<>>
        /\ llm_raw = <<"SPARQL Query: ", SPARQL_FENCE>> \o q1 \o <<FENCE>>
        /\ raw_response = llm_raw
        /\ query = PyStr(q1)
        /\ sparql_q = DEFAULT_QUERY
        /\ result = Unset
        /\ wikidata_context = Unset
        /\ chat_ret = Unset
        /\ exc = "none"
        /\ calls = <<>>
        /\ entity_response = Unset
        /\ ids_response = Unset
        /\ results = Unset
        /\ chat_args = Unset
        /\ stub = <<>>
        /\ o_pc = "execute"
        /\ o_query = PyStr(q2)
        /\ o_result = Unset

\* execute_sparql_to_wikidata 74-75 in the second run
OtherSetQuery ==
    /\ o_pc = "execute"
    /\ IsStr(o_query)
    /\ sparql_q' = o_query.v
    /\ o_pc' = "query"
    /\ UNCHANGED <<messages, pc, question, qwords, extracted_entities, search_i,
                   retrieved, entity_ids, llm_raw, raw_response, query, result,
                   wikidata_context, chat_ret, exc, response, calls, entity_response,
                   ids_response, results, chat_args, stub, o_query, o_result>>

\* execute_sparql_to_wikidata 76-87 in the second run
OtherQueryConvert ==
    /\ o_pc = "query"
    /\ o_result' = ExecuteTry(KBAnswer(sparql_q))
    /\ o_pc' = "chat"
    /\ UNCHANGED <<messages, pc, question, qwords, extracted_entities, search_i,
                   retrieved, entity_ids, llm_raw, raw_response, query, sparql_q,
                   result, wikidata_context, chat_ret, exc, response, calls,
                   entity_response, ids_response, results, chat_args, stub, o_query>>

NextShared ==
    \/ SetQuery
    \/ QueryConvertOn(KBAnswer(sparql_q)) /\ UNCHANGED aux
    \/ OtherSetQuery
    \/ OtherQueryConvert

SpecShared == InitShared /\ [][NextShared]_vars

(***************************************************************************)
(* Properties.                                                             *)
(***************************************************************************)
EmptyQuery == PyStr(<<>>)
ExecutorCalled == \E i \in 1..Len(calls) : calls[i].kind \in {"execute", "endpoint"}
AnswerCallMade == \E i \in 1..Len(calls) : calls[i].kind = "llm" /\ calls[i].stage = "chat"
ApologyMessage == [role |-> "assistant", content |-> APOLOGY_MSG]
HasRandClause(t) ==
    \/ Contains(RAND_CLAUSE, t)
    \/ Contains(DESC_RAND_CLAUSE, t)
    \/ Contains(ASC_RAND_CLAUSE, t)

\* The ids of the candidates kept in the dict d of get_entity_ids
CandidateIds(d) ==
    UNION {{d[i][2][k].id : k \in 1..Len(d[i][2])} : i \in 1..Len(d)}

\* C1: when generate_sparql yields the empty query, the executor is never
\* invoked while that question is handled: no call of
\* execute_sparql_to_wikidata, no request to the endpoint, and the query held
\* by the client is untouched.
C1_NoExecutorOnEmptyQuery ==
    query = EmptyQuery => (~ExecutorCalled /\ sparql_q = DEFAULT_QUERY)

C1_Witness ==
    /\ pc = "respond"
    /\ query = EmptyQuery
    /\ exc = "none"

\* C2: when the synthesized query is empty, chat returns exactly the fixed
\* unsupported-query message and the answer generation call is not made.
C2_EmptyQueryGivesUnsupported ==
    (pc = "respond" /\ query = EmptyQuery)
        => (exc = "none" /\ chat_ret = PyStr(UNSUPPORTED_MSG) /\ ~AnswerCallMade)

\* C3: a synthesizer response without a fenced sparql block gives the empty
\* query, so the run ends as for an empty fenced block: the executor is not
\* called and nothing is raised.
C3_NoFenceIsEmptyQuery ==
    (query # Unset /\ SPARQL_FENCE \notin Range(raw_response))
        => (query = EmptyQuery /\ ~ExecutorCalled /\ exc = "none")

\* C4: when the executor was invoked and yields zero records (an empty list,
\* or a failure: None), chat returns the fixed refusal and makes no answer
\* generation call.
C4_ZeroRecordsRefused ==
    (pc = "respond" /\ ExecuteCall \in Range(calls) /\ result \in {PyNone, PyList(<<>>)})
        => (exc = "none" /\ chat_ret = PyStr(REFUSAL_MSG) /\ ~AnswerCallMade)

C4_Witness ==
    /\ pc = "respond"
    /\ EndpointCall("ok") \in Range(calls)
    /\ result = PyList(<<>>)
    /\ chat_ret = PyStr(REFUSAL_MSG)

\* C5: when the endpoint raises while a non-empty query is executed, no
\* exception leaves run, chat is entered with a record set that counts as
\* empty, chat returns the fixed refusal, and the response written is that
\* refusal, not the apology.
C5_EndpointErrorRefused ==
    /\ [](EndpointCall("error") \in Range(calls)
            => /\ exc = "none"
               /\ pc \in {"chat", "respond"}
               /\ wikidata_context \in {PyNone, PyList(<<>>)}
               /\ pc = "respond" => (chat_ret = PyStr(REFUSAL_MSG) /\ ~AnswerCallMade))
    /\ [][EndpointCall("error") \in Range(calls) /\ pc = "respond"
            => response' = PyStr(REFUSAL_MSG)]_vars

C5_Witness ==
    /\ pc = "respond"
    /\ EndpointCall("error") \in Range(calls)
    /\ query # EmptyQuery
    /\ chat_ret = PyStr(REFUSAL_MSG)

\* C6: an exception raised by any stage goes straight to the handler of
\* main.py; the response recorded in the history and written is the generic
\* apology, and the exception goes no further (the handler ends, ready for the
\* next prompt).
C6_ExceptionsBecomeApology ==
    /\ [](exc # "none" => pc = "respond")
    /\ [][exc # "none"
            => /\ response' = PyStr(APOLOGY_MSG)
               /\ messages' = Append(messages, ApologyMessage)
               /\ exc' = "none"
               /\ pc' = "idle"]_vars

C6_Witness ==
    /\ pc = "idle"
    /\ response = PyStr(APOLOGY_MSG)
    /\ messages[Len(messages)] = ApologyMessage

\* C7: the response is one of four kinds, each for the outcome it is assigned
\* to: the apology when a stage raised, the unsupported-query message when the
\* query is empty, the refusal when there are zero records, and a generated
\* answer otherwise.
C7_FourKindsAssigned ==
    [][pc = "respond"
         => /\ exc # "none" => response' = PyStr(APOLOGY_MSG)
            /\ (exc = "none" /\ query = EmptyQuery) => response' = PyStr(UNSUPPORTED_MSG)
            /\ (exc = "none" /\ query # EmptyQuery /\ result \in {PyNone, PyList(<<>>)})
                  => response' = PyStr(REFUSAL_MSG)
            /\ (exc = "none" /\ query # EmptyQuery /\ result \notin {PyNone, PyList(<<>>)})
                  => response' \in {PyStr(SplitLast(o, ANSWER_MARKER)) : o \in AnswerOutputs}]_vars

\* C8: every entity id get_entity_ids returns is the id of a candidate fetched
\* from the entity search for the mentions.
C8_IdsAmongCandidates ==
    [][(pc = "search" /\ pc' = "synthesize")
         => \A i \in 1..Len(entity_ids') : entity_ids'[i].id \in CandidateIds(retrieved)]_vars

\* C9: when the entity search fails for a mention, the mention gets an empty
\* candidate list and the run goes on with the search loop.
C9_SearchFailureRecovered ==
    (calls # <<>> /\ calls[Len(calls)].kind = "search" /\ calls[Len(calls)].outcome # "json")
        => /\ exc = "none"
           /\ pc = "search"
           /\ calls[Len(calls)].stage \in DictKeys(retrieved)
           /\ DictGet(retrieved, calls[Len(calls)].stage) = <<>>

\* C10: generate_sparql strips the random-order clauses exactly when
\* NOT(order and sort both present) AND NOT(random present), the keywords
\* counted whatever their case: the output is untouched when the rule is false
\* and changed, where it holds such a clause, when the rule is true.
C10_StripRuleByKeywords ==
    pc = "execute" =>
        LET kw == KeywordsOf(qwords)
            rule == ~("order" \in kw /\ "sort" \in kw) /\ "random" \notin kw
        IN  /\ ~rule => raw_response = llm_raw
            /\ (rule /\ HasRandClause(llm_raw))
                  => (raw_response # llm_raw /\ Len(raw_response) < Len(llm_raw))
            /\ (rule /\ ~HasRandClause(llm_raw)) => raw_response = llm_raw

C10_Witness ==
    /\ pc = "execute"
    /\ KeywordsOf(qwords) = {"order", "sort"}
    /\ HasRandClause(llm_raw)
    /\ raw_response = llm_raw

\* C11: whenever the stripping rule applies to the question, the query that
\* generate_sparql extracts from the post-processed output holds none of the
\* three random-order clauses, whatever the raw output was.
C11_NoRandClauseAfterStrip ==
    (pc = "execute" /\ StripRule(question) /\ IsStr(query)) => ~HasRandClause(query.v)

StageOfCall(c) ==
    CASE c.kind = "llm" /\ c.stage = "extract_entity" -> 1
      [] c.kind = "search" -> 2
      [] c.kind = "llm" /\ c.stage = "get_entity_ids" -> 2
      [] c.kind = "llm" /\ c.stage = "generate_sparql" -> 3
      [] c.kind \in {"execute", "endpoint"} -> 4
      [] c.kind = "llm" /\ c.stage = "chat" -> 5
StageOfPc(p) ==
    CASE p = "idle" -> 0
      [] p = "extract" -> 1
      [] p = "search" -> 2
      [] p = "synthesize" -> 3
      [] p \in {"execute", "query"} -> 4
      [] p = "chat" -> 5
      [] p = "respond" -> 6
CallsOfStage(n) == {i \in 1..Len(calls) : StageOfCall(calls[i]) = n /\ calls[i].kind # "search"}

\* C12: within one run the stages start in the order extraction, resolution,
\* synthesis, execution, answering: the handler only moves forward from one
\* stage to a later one (the search loop stays in resolution), the calls made
\* for the question are in stage order, the generation call of a stage and the
\* executor are reached at most once, and no call of an earlier stage follows
\* a call of a later one.
C12_StagesInOrderOnce ==
    /\ [](/\ \A i, j \in 1..Len(calls) :
                i < j => StageOfCall(calls[i]) <= StageOfCall(calls[j])
          /\ \A n \in {1, 2, 3, 5} : Cardinality(CallsOfStage(n)) <= 1
          /\ Cardinality({i \in 1..Len(calls) : calls[i].kind = "execute"}) <= 1
          /\ Cardinality({i \in 1..Len(calls) : calls[i].kind = "endpoint"}) <= 1
          /\ \A i \in 1..Len(calls) : StageOfCall(calls[i]) <= StageOfPc(pc))
    /\ [][pc # "respond" =>
             \/ StageOfPc(pc') > StageOfPc(pc)
             \/ pc = "search" /\ pc' = "search"
             \/ pc = "execute" /\ pc' = "query"]_vars

C12_Witness ==
    /\ pc = "respond"
    /\ exc = "none"
    /\ \A n \in 1..5 : \E i \in 1..Len(calls) : StageOfCall(calls[i]) = n
    /\ \E i \in 1..Len(calls) : calls[i].kind = "search"
    /\ \E i \in 1..Len(calls) : calls[i].kind = "endpoint"

Replies == {messages[k].content : k \in {k \in 2..Len(messages) : messages[k].role = "assistant"}}
Asked == {messages[k].content : k \in {k \in 1..Len(messages) : messages[k].role = "user"}}

\* C13: when the same question is asked again and every service answers the
\* same request the same way, the second handling puts no request to a service
\* that the first did not put, and the responses of the two handlings are the
\* same text.
C13_SameQuestionSameOutput ==
    Cardinality(Asked) <= 1 =>
        /\ \A i \in 1..Len(stub) : stub[i].run = 1
        /\ Cardinality(Replies) <= 1

C13_Witness ==
    /\ pc = "idle"
    /\ Len(UserMessages(messages)) = 2
    /\ Len(messages) = 5
    /\ messages[3].content = <<"There are 8000000000 humans.">>
    /\ messages[5].content = messages[3].content

AllBound(kb) ==
    \A r \in 1..Len(kb.bindings) : \A h \in 1..Len(kb.head) :
        kb.head[h] \in DOMAIN kb.bindings[r]

ChatCalls == {i \in 1..Len(calls) : calls[i].kind = "llm" /\ calls[i].stage = "chat"}

C16_EmptyAnswerRefused ==
    (pc = "respond" /\ exc = "none" /\ ChatCalls # {})
        => (IsStr(chat_ret) /\ chat_ret.v # <<>>)

\* C17: when two runs share one instance and their steps interleave, the
\* records each run gets from execute_sparql_to_wikidata are the endpoint's
\* answer to the query that run synthesized.
C17_OwnQueryExecuted ==
    /\ pc = "chat" => result = ExecuteTry(KBAnswer(query.v))
    /\ o_pc = "chat" => o_result = ExecuteTry(KBAnswer(o_query.v))

PredicateId(piece) ==
    CASE piece = "wdt:P31" -> "P31"
      [] piece = "wdt:P1971" -> "P1971"
      [] OTHER -> ""
PredicateIds(text) == {PredicateId(text[i]) : i \in 1..Len(text)} \ {""}

\* C18: every predicate id in a non-empty query that generate_sparql returns
\* (and that run hands to the executor) is one of the ids of the predicate
\* catalog written in the synthesis prompt.
C18_PredicatesInCatalog ==
    (IsStr(query) /\ query.v # <<>>) => PredicateIds(query.v) \subseteq PREDICATE_CATALOG

ExtractionUnparsed == entity_response # Unset /\ ~entity_response.json

\* C19: when the text of the mention-extraction call does not parse, the
\* exception leaves run at once: the handler is at its except clause with the
\* parser's exception, the extraction call is the only call made for the
\* question (no entity search, no resolution, synthesis, execution or answer
\* call), and the response written is the apology.
C19_ExtractParseFailureAborts ==
    /\ [](ExtractionUnparsed =>
            /\ pc = "respond"
            /\ exc = "OutputParserException"
            /\ calls = <<LlmCall("extract_entity", MAIN_MODEL_NAME, "ok")>>)
    /\ [][ExtractionUnparsed =>
            /\ response' = PyStr(APOLOGY_MSG)
            /\ messages' = Append(messages, ApologyMessage)
            /\ pc' = "idle"]_vars

C19_Witness ==
    /\ ExtractionUnparsed
    /\ pc = "respond"
    /\ exc = "OutputParserException"

\* C20: a disambiguation text that does not parse is parsed once more after
\* its single quotes are replaced by double quotes, with no further generation
\* call: the ids of the retried text are returned when it parses, and the
\* parser's exception ends the handling when it does not.  A text that parses
\* at once is returned as it is.
C20_OneQuoteRetry ==
    ids_response # Unset =>
        /\ Cardinality(CallsOfStage(2)) = 1
        /\ (ids_response.schema /\ ids_response.quote \in {"double", "single"})
              => (entity_ids = ids_response.ids /\ exc # "OutputParserException")
        /\ ~(ids_response.schema /\ ids_response.quote \in {"double", "single"})
              => (exc = "OutputParserException" /\ pc = "respond" /\ entity_ids = <<>>)

C20_Witness ==
    /\ pc = "synthesize"
    /\ ids_response # Unset
    /\ ids_response.quote = "single"
    /\ entity_ids = <<E_human>>

SearchCalls == {i \in 1..Len(calls) : calls[i].kind = "search"}
DisambCalls ==
    {i \in 1..Len(calls) : calls[i].kind = "llm" /\ calls[i].stage = "get_entity_ids"}
DisambCallMade ==
    /\ Len(calls') = Len(calls) + 1
    /\ calls'[Len(calls')].kind = "llm"
    /\ calls'[Len(calls')].stage = "get_entity_ids"

\* C21: get_entity_ids makes one disambiguation generation call for the
\* question, never more, whether the mention list is empty, one mention or
\* several; when it makes the call the loop over the mentions is over, one
\* search has been made for every mention, and question, the mention list and
\* the dict holding a candidate list for every mention are what it passes.
C21_OneDisambiguationCall ==
    /\ [](/\ Cardinality(DisambCalls) <= 1
          /\ pc \in {"synthesize", "execute", "query", "chat"}
                => Cardinality(DisambCalls) = 1)
    /\ [][DisambCallMade =>
            /\ DisambCalls = {}
            /\ search_i > Len(extracted_entities)
            /\ Cardinality(SearchCalls) = Len(extracted_entities)
            /\ \A k \in 1..Len(extracted_entities) :
                  /\ \E i \in SearchCalls : calls[i].stage = extracted_entities[k]
                  /\ extracted_entities[k] \in DictKeys(retrieved)
            /\ DictKeys(retrieved) = Range(extracted_entities)
            /\ question = UserMessages(messages)[Len(UserMessages(messages))].content]_vars

C21_Witness ==
    /\ pc = "synthesize"
    /\ Len(extracted_entities) = 2
    /\ Cardinality(SearchCalls) = 2
    /\ Cardinality(DisambCalls) = 1

C21_WitnessNoMention ==
    /\ pc = "synthesize"
    /\ extracted_entities = <<>>
    /\ Cardinality(DisambCalls) = 1

\* C22: when get_entity_ids returns, the list of resolved entities it returns
\* is no longer than the list of mentions it was given.
C22_NoMoreIdsThanMentions ==
    pc = "synthesize" => Len(entity_ids) <= Len(extracted_entities)

\* C23: the candidate list kept for a mention is the first min(5, n) of the n
\* entries the search returned for it, in the order of the ranking, and so
\* never holds more than 5 candidates.
C23_TopFiveCandidates ==
    \A i \in 1..Len(retrieved) :
        LET kept == retrieved[i][2]
            all == SearchIndex(retrieved[i][1])
        IN  /\ Len(kept) <= 5
            /\ Len(kept) = IF Len(all) < 5 THEN Len(all) ELSE 5
            /\ \A k \in 1..Len(kept) :
                  kept[k].id = all[k].id /\ kept[k].label = all[k].label

C23_Witness ==
    /\ Len(retrieved) = 2
    /\ Len(SearchIndex(retrieved[1][1])) = 3
    /\ Len(retrieved[1][2]) = 3
    /\ Len(SearchIndex(retrieved[2][1])) = 7
    /\ Len(retrieved[2][2]) = 5

\* C24: while a prompt is handled, the question chat was called with is the
\* text of the prompt just typed, which is the last message of the history
\* and a user message; the answer call, when made, is given that question, so
\* no earlier message of the history reaches the pipeline.
C24_LatestPromptIsQuestion ==
    pc # "idle" =>
        /\ messages[Len(messages)].role = "user"
        /\ question = messages[Len(messages)].content
        /\ question = Join(qwords)
        /\ chat_args # Unset => chat_args.question = Join(qwords)

C24_Witness ==
    /\ pc = "respond"
    /\ chat_args # Unset
    /\ Len(UserMessages(messages)) = 2
    /\ messages[2].content # messages[4].content
    /\ question = messages[4].content

\* C25: once run has called the executor, the value it records is the empty
\* list exactly when the endpoint answered with zero rows; whenever the
\* executor call failed, run records a value that is not the empty list.
C25_FailureNotEmptyList ==
    (pc \in {"chat", "respond"} /\ ExecutorCalled)
        => (result = PyList(<<>>) <=> (results # Unset /\ results.bindings = <<>>))

LlmCallsOf(stage) == {i \in 1..Len(calls) : calls[i].kind = "llm" /\ calls[i].stage = stage}
LlmCalls == {i \in 1..Len(calls) : calls[i].kind = "llm"}

\* C26: when chat returns without an exception, three or four generation
\* calls have been made for the question: one for extraction, one for
\* disambiguation, one for synthesis, and one answer call exactly when run
\* handed chat a non-empty list of records.
C26_ThreeOrFourGenerationCalls ==
    (pc = "respond" /\ exc = "none") =>
        /\ Cardinality(LlmCalls) \in {3, 4}
        /\ Cardinality(LlmCallsOf("extract_entity")) = 1
        /\ Cardinality(LlmCallsOf("get_entity_ids")) = 1
        /\ Cardinality(LlmCallsOf("generate_sparql")) = 1
        /\ Cardinality(LlmCallsOf("chat")) <= 1
        /\ LlmCallsOf("chat") # {}
              <=> (IsList(wikidata_context) /\ wikidata_context.v # <<>>)

Handled == Len(SelectSeq(messages, LAMBDA m : m.role = "user"))

\* C27: the history is the greeting followed by user and assistant messages
\* in turn, one pair per prompt handled (and the user message of the prompt
\* being handled); submitting a prompt appends one user message holding the
\* prompt, the end of the handling appends one assistant message holding the
\* response, the apology when the pipeline raised, and no step of the
\* pipeline between the two changes the history.
C27_HistoryIsGreetingAndPairs ==
    /\ [](/\ messages[1] = [role |-> "assistant", content |-> GREETING]
          /\ \A k \in 2..Len(messages) :
                messages[k].role = IF k % 2 = 0 THEN "user" ELSE "assistant"
          /\ Len(messages) = IF pc = "idle" THEN 1 + 2 * Handled ELSE 2 * Handled)
    /\ [][/\ pc = "idle" =>
                messages' = Append(messages, [role |-> "user", content |-> Join(qwords')])
          /\ pc = "respond" =>
                /\ messages' = Append(messages, [role |-> "assistant", content |-> response'.v])
                /\ exc # "none" => response' = PyStr(APOLOGY_MSG)
                /\ pc' = "idle"
          /\ pc \notin {"idle", "respond"} => messages' = messages]_vars

C27_Witness ==
    /\ pc = "idle"
    /\ Len(messages) = 5
    /\ messages[3].content = APOLOGY_MSG
    /\ messages[5].content = <<"There are 8000000000 humans.">>
    /\ messages[2].content # messages[4].content

RowBound(kb, r) == \A h \in 1..Len(kb.head) : kb.head[h] \in DOMAIN kb.bindings[r]

\* C28: when a row of the endpoint's answer lacks a header variable,
\* execute_sparql_to_wikidata returns None: no record is returned, not even
\* for the rows that bind every variable.
C28_AllOrNothing ==
    (results # Unset /\ ~AllBound(results)) => (result = PyNone /\ wikidata_context = PyNone)

C28_Witness ==
    /\ pc = "chat"
    /\ results # Unset
    /\ Len(results.head) = 2
    /\ Len(results.bindings) = 2
    /\ RowBound(results, 1)
    /\ ~RowBound(results, 2)
    /\ result = PyNone

\* C29: the synthesis prompt sent to the generation endpoint is consistent
\* with its own closed vocabulary: every property id used by the query of a
\* worked example is the id of an entry of the catalog of the same prompt.
C29_ExemplarsUseCatalog ==
    LlmCallsOf("generate_sparql") # {} =>
        \A k \in 1..Len(EXEMPLAR_PREDICATES) :
            EXEMPLAR_PREDICATES[k] \subseteq PREDICATE_CATALOG

\* C30: every generation call made for a question (extraction,
\* disambiguation, synthesis, answer) is sent to the model the
\* WikidataGraphRAG instance was constructed with.
C30_OneModelForAllCalls ==
    \A i \in LlmCalls : calls[i].model = MAIN_MODEL_NAME

====
